---- MODULE Spec2Model ----
(***************************************************************************)
(* iron-diesel-middleware (src/src/lib.rs): a BeforeMiddleware that puts a *)
(* shared r2d2 pool handle into every request's extension map, and the     *)
(* request extension method db_conn that looks the handle up and checks a  *)
(* connection out of the pool.                                             *)
(*                                                                         *)
(* The pool (r2d2), the extension map (typemap) and the request dispatch   *)
(* (iron) are libraries: they are modelled by the contract lib.rs relies   *)
(* on - a bounded set of connections, a blocking get that ends with a      *)
(* connection or a timeout error, return of the connection on drop, a map  *)
(* keyed by type, before-hooks that run ahead of the handler.              *)
(***************************************************************************)
EXTENDS Integers, FiniteSets, Sequences, TLC

\* ---------------------------------------------------------------- bounds
\* Number of requests in flight (one worker thread each).
NumRequests == 3
\* Largest pool_size a configuration may carry.
MaxPoolSize == 2
\* Most connections one handler keeps at a time.
MaxHeld == 2

\* The constructor calls the program makes: two DieselMiddleware instances.
Middlewares == {1, 2}
Requests == 1..NumRequests
\* The pool built by the constructor call of instance m is pool m.
PoolIds == Middlewares
ConnIds == 1..MaxPoolSize
\* The connection types T a DieselMiddleware<T> is instantiated with.
ConnTypes == {"Pg", "Sqlite"}
NoValue == 0
NoPool == 0
NoType == "none"

VARIABLES
    mw,        \* per constructor call: its Result<DieselMiddleware<T>, Box<Error>>
    pools,     \* per pool: its size, its idle connections
    ext,       \* per request: req.extensions restricted to the keys DieselMiddleware<T>
    pc,        \* per request: where its worker thread is
    call,      \* per request: the T of the db_conn::<T> call in progress
    panic,     \* per request: the unwrap that panicked, if one did
    waitOn,    \* per request: the pool its call is blocked on in poll.get()
    held,      \* per request: the connections its handler has checked out
    owned,     \* per request: how many PooledConnection values its handler owns
    ran,       \* per request: the instances whose before hook ran on it
    lastHook,  \* per request: the instance whose before hook ran last
    hookResult \* per request: what the last before call returned

vars == <<mw, pools, ext, pc, call, panic, waitOn, held, owned, ran, lastHook, hookResult>>

\* ------------------------------------------------------------- the pool
\* r2d2::Config as far as this model reads it.
Configs == [pool_size : 1..MaxPoolSize]

\* r2d2::Config::default(); the library's default size is larger than what
\* the bounded set of requests can exhaust, so the largest modelled size
\* stands for it.
DefaultConfig == [pool_size |-> MaxPoolSize]

EmptyPool == [size |-> 0, idle |-> {}]

\* r2d2::Pool::new(config, manager): Ok(pool) with its connections
\* established, or Err when the manager cannot connect.
PoolNew(connectable, config) ==
    IF connectable
    THEN [ok |-> TRUE, pool |-> [size |-> config.pool_size,
                                 idle |-> 1..config.pool_size]]
    ELSE [ok |-> FALSE, pool |-> EmptyPool]

\* The connections of pool p that are checked out.
CheckedOut(p) == {c \in UNION {held[r] : r \in Requests} : c[1] = p}

\* Mutant: a dropped connection is closed instead of returned.
Discard(ps, conns) == ps

\* Dropping PooledConnections returns each to the pool it came from.
Release(ps, conns) ==
    [p \in PoolIds |->
        [ps[p] EXCEPT !.idle = @ \cup {c[2] : c \in {d \in conns : d[1] = p}}]]

\* ---------------------------------------------------------- constructor
NotCalled == [res |-> "none", input |-> "none", T |-> NoType, pool |-> NoPool]

\* How the connection string given to a constructor call is remembered.
InputOf(connectable) == IF connectable THEN "good" ELSE "bad"

\* Mutant: the pool's error is swallowed and a handle is returned anyway.
NewWithConfigUnchecked(m, T, connectable, pn) ==
    [res |-> "Ok", input |-> InputOf(connectable), T |-> T, pool |-> m]

\* new_with_config: try!(Pool::new(..)) then Ok(DieselMiddleware { pool: Arc::new(pool) })
NewWithConfigResult(m, T, connectable, pn) ==
    IF pn.ok
    THEN [res |-> "Ok", input |-> InputOf(connectable), T |-> T, pool |-> m]
    ELSE [res |-> "Err", input |-> InputOf(connectable), T |-> NoType, pool |-> NoPool]

NewWithConfigBody(m, T, connectable, config) ==
    /\ mw[m].res = "none"
    /\ LET pn == PoolNew(connectable, config)
           r  == NewWithConfigResult(m, T, connectable, pn)
       IN  /\ mw' = [mw EXCEPT ![m] = r]
           /\ pools' = [pools EXCEPT ![m] = IF r.res = "Ok" THEN pn.pool ELSE EmptyPool]
    /\ UNCHANGED <<ext, pc, call, panic, waitOn, held, owned, ran, lastHook, hookResult>>

\* DieselMiddleware::<T>::new_with_config(connection_str, config)
NewWithConfig(m) ==
    \E T \in ConnTypes, connectable \in BOOLEAN, config \in Configs :
        NewWithConfigBody(m, T, connectable, config)

\* DieselMiddleware::<T>::new(connection_str)
New(m) ==
    \E T \in ConnTypes, connectable \in BOOLEAN :
        NewWithConfigBody(m, T, connectable, DefaultConfig)

\* ------------------------------------------------------- the before hook
\* Mutant: one key for every DieselMiddleware, whatever its T.
SharedKey(m) == "Pg"

\* impl typemap::Key for DieselMiddleware<T>: the key is the type, so T.
ExtKey(m) == mw[m].T

\* Mutant: the hook stores a handle to another pool than self.pool.
OtherHandle(m) == CHOOSE p \in PoolIds : p # mw[m].pool

\* self.pool.clone(): another Arc to the same pool.
ClonedHandle(m) == mw[m].pool

\* Mutant: the insert replaces the whole map.
InsertFresh(e, k, v) == [t \in ConnTypes |-> IF t = k THEN v ELSE NoValue]

\* req.extensions.insert::<K>(v)
Insert(e, k, v) == [e EXCEPT ![k] = v]

NoExt == [t \in ConnTypes |-> NoValue]

\* BeforeMiddleware::before(&self, req)
Before(m, r) ==
    /\ mw[m].res = "Ok"
    /\ pc[r] = "before"
    /\ ext' = [ext EXCEPT ![r] = Insert(ext[r], ExtKey(m), ClonedHandle(m))]
    /\ ran' = [ran EXCEPT ![r] = @ \cup {m}]
    /\ lastHook' = [lastHook EXCEPT ![r] = m]
    /\ hookResult' = [hookResult EXCEPT ![r] = "Ok"]
    /\ UNCHANGED <<mw, pools, pc, call, panic, waitOn, held, owned>>

\* The chain is through with its before hooks and calls the handler.
Dispatch(r) ==
    /\ pc[r] = "before"
    /\ pc' = [pc EXCEPT ![r] = "handler"]
    /\ UNCHANGED <<mw, pools, ext, call, panic, waitOn, held, owned, ran, lastHook, hookResult>>

\* ------------------------------------------------------------- db_conn
\* Mutant: the lookup falls back to whatever handle the request carries.
LookupAny(r, T) ==
    IF ext[r][T] # NoValue \/ \A t \in ConnTypes : ext[r][t] = NoValue
    THEN ext[r][T]
    ELSE ext[r][CHOOSE t \in ConnTypes : ext[r][t] # NoValue]

\* Mutant: the lookup misses.
LookupNothing(r, T) == NoValue

\* self.extensions.get::<DieselMiddleware<T>>()
Lookup(r, T) == ext[r][T]

\* The request and what its handler owns are dropped.
DropRequest(r) ==
    /\ pools' = Release(pools, held[r])
    /\ held' = [held EXCEPT ![r] = {}]
    /\ owned' = [owned EXCEPT ![r] = 0]
    /\ ext' = [ext EXCEPT ![r] = NoExt]
    /\ call' = [call EXCEPT ![r] = NoType]
    /\ waitOn' = [waitOn EXCEPT ![r] = NoPool]
    /\ ran' = [ran EXCEPT ![r] = {}]
    /\ lastHook' = [lastHook EXCEPT ![r] = 0]
    /\ hookResult' = [hookResult EXCEPT ![r] = "none"]

\* An unwrap panics and the thread of request r unwinds.
Unwind(r, what) ==
    /\ pc' = [pc EXCEPT ![r] = "panicked"]
    /\ panic' = [panic EXCEPT ![r] = what]
    /\ DropRequest(r)
    /\ UNCHANGED mw

\* Mutant: a connection the request already holds is handed out again.
CachedCheckout(p, r) ==
    IF \E c \in held[r] : c[1] = p
    THEN {c[2] : c \in {d \in held[r] : d[1] = p}}
    ELSE pools[p].idle

\* Mutant: the pool hands out any of its connections, idle or not.
SharedCheckout(p, r) == 1..pools[p].size

\* The connections poll.get() may return to request r: the idle ones.
Checkout(p, r) == pools[p].idle

\* poll.get() returns Ok(conn); unwrap() yields it and db_conn returns it.
Obtain(r, p) ==
    /\ \E c \in Checkout(p, r) :
        /\ held' = [held EXCEPT ![r] = @ \cup {<<p, c>>}]
        /\ owned' = [owned EXCEPT ![r] = @ + 1]
        /\ pools' = [pools EXCEPT ![p].idle = @ \ {c}]
    /\ pc' = [pc EXCEPT ![r] = "handler"]
    /\ call' = [call EXCEPT ![r] = NoType]
    /\ waitOn' = [waitOn EXCEPT ![r] = NoPool]
    /\ UNCHANGED <<mw, ext, panic, ran, lastHook, hookResult>>

\* req.db_conn::<T>(): the lookup and its unwrap, then poll.get(), which
\* returns at once when a connection is idle and waits otherwise.
DbConn(r, T) ==
    /\ pc[r] = "handler"
    /\ owned[r] < MaxHeld
    /\ IF Lookup(r, T) = NoValue
       THEN Unwind(r, "unwrap_none")
       ELSE IF Checkout(Lookup(r, T), r) # {}
       THEN Obtain(r, Lookup(r, T))
       ELSE /\ pc' = [pc EXCEPT ![r] = "blocked"]
            /\ call' = [call EXCEPT ![r] = T]
            /\ waitOn' = [waitOn EXCEPT ![r] = Lookup(r, T)]
            /\ UNCHANGED <<mw, pools, ext, panic, held, owned, ran, lastHook, hookResult>>

\* A connection came back while the call waited in poll.get().
PoolGet(r) ==
    /\ pc[r] = "blocked"
    /\ Obtain(r, waitOn[r])

\* Mutant: poll.get() waits without a timeout.
NeverTimesOut(p, r) == FALSE

\* poll.get() gives up: the timeout ran out with no connection idle.
TimedOut(p, r) == Checkout(p, r) = {}

\* poll.get() returns Err(GetTimeout); unwrap() panics.
PoolTimeout(r) ==
    /\ pc[r] = "blocked"
    /\ TimedOut(waitOn[r], r)
    /\ Unwind(r, "unwrap_err")

\* The handler drops one PooledConnection.
DropConn(r, c) ==
    /\ pc[r] = "handler"
    /\ c \in held[r]
    /\ held' = [held EXCEPT ![r] = @ \ {c}]
    /\ owned' = [owned EXCEPT ![r] = @ - 1]
    /\ pools' = Release(pools, {c})
    /\ UNCHANGED <<mw, ext, pc, call, panic, waitOn, ran, lastHook, hookResult>>

\* The handler returns: its connections and the request are dropped.
Finish(r) ==
    /\ pc[r] = "handler"
    /\ pc' = [pc EXCEPT ![r] = "done"]
    /\ DropRequest(r)
    /\ UNCHANGED <<mw, panic>>

\* ---------------------------------------------------------- the system
Init ==
    /\ mw = [m \in Middlewares |-> NotCalled]
    /\ pools = [p \in PoolIds |-> EmptyPool]
    /\ ext = [r \in Requests |-> NoExt]
    /\ pc = [r \in Requests |-> "before"]
    /\ call = [r \in Requests |-> NoType]
    /\ panic = [r \in Requests |-> "none"]
    /\ waitOn = [r \in Requests |-> NoPool]
    /\ held = [r \in Requests |-> {}]
    /\ owned = [r \in Requests |-> 0]
    /\ ran = [r \in Requests |-> {}]
    /\ lastHook = [r \in Requests |-> 0]
    /\ hookResult = [r \in Requests |-> "none"]

\* The steps of a program that constructs the instances M and serves the
\* requests R.
Next(M, R) ==
    \/ \E m \in M : New(m)
    \/ \E m \in M : NewWithConfig(m)
    \/ \E m \in M, r \in R : Before(m, r)
    \/ \E r \in R : Dispatch(r)
    \/ \E r \in R, T \in ConnTypes : DbConn(r, T)
    \/ \E r \in R : PoolGet(r)
    \/ \E r \in R : PoolTimeout(r)
    \/ \E r \in R, c \in PoolIds \X ConnIds : DropConn(r, c)
    \/ \E r \in R : Finish(r)

\* One middleware instance in front of the handler, the requests concurrent.
Spec == Init /\ [][Next({1}, Requests)]_vars

\* poll.get() returns within the pool's timeout, with a connection or an error.
FairSpec == Spec /\ \A r \in Requests : WF_vars(PoolGet(r) \/ PoolTimeout(r))

\* Two middleware instances linked into one chain, two requests.
ChainSpec == Init /\ [][Next(Middlewares, {1, 2})]_vars

\* ------------------------------------------------------------ the claims
\* Some instance of connection type T has run its before hook on request r.
Registered(r, T) == \E m \in ran[r] : mw[m].T = T

\* The connections request r obtains in a step.
Obtained(r) == held'[r] \ held[r]

\* C1: a db_conn::<T> call on a request on which the before hook of a
\* DieselMiddleware<T> has run finds the handle, so the unwrap of the lookup
\* does not panic; made while the pool of that handle has an idle connection,
\* the call does not wait and does not panic: it returns one connection,
\* checked out of that pool.
C1_RegisteredCallReturns ==
    [][\A r \in Requests, T \in ConnTypes :
        (DbConn(r, T) /\ Registered(r, T))
        => /\ ext[r][T] \in PoolIds
           /\ panic'[r] # "unwrap_none"
           /\ pools[ext[r][T]].idle # {}
                => /\ pc'[r] = "handler"
                   /\ panic'[r] = "none"
                   /\ \E c \in pools[ext[r][T]].idle :
                        /\ held'[r] = held[r] \cup {<<ext[r][T], c>>}
                        /\ pools'[ext[r][T]].idle = pools[ext[r][T]].idle \ {c}]_vars

\* A registered request holds a connection of the pool its handle names.
C1_Witness ==
    \E r \in Requests, T \in ConnTypes :
        /\ Registered(r, T)
        /\ pc[r] = "handler"
        /\ \E c \in held[r] : c[1] = ext[r][T]

\* C2: a db_conn::<T> call on a request on which no before hook of a
\* DieselMiddleware<T> has run panics in the unwrap of the lookup, whatever
\* the state of the pools; it returns nothing and checks out nothing.
C2_UnregisteredCallPanics ==
    [][\A r \in Requests, T \in ConnTypes :
        (DbConn(r, T) /\ ~Registered(r, T))
        => /\ pc'[r] = "panicked"
           /\ panic'[r] = "unwrap_none"
           /\ held'[r] = {}
           /\ \A q \in Requests \ {r} : held'[q] = held[q]
           /\ \A p \in PoolIds : pools[p].idle \subseteq pools'[p].idle]_vars

C2_Witness ==
    \E r \in Requests, p \in PoolIds :
        /\ pc[r] = "panicked"
        /\ panic[r] = "unwrap_none"
        /\ pools[p].size > 0
        /\ pools[p].idle = 1..pools[p].size

\* The pool has handed out every connection it has.
Exhausted(p) == pools[p].size > 0 /\ pools[p].idle = {}

\* The connections of pool p that request r holds.
HeldOf(r, p) == {c \in held[r] : c[1] = p}

\* C3: while every connection of the pool is held (two requests holding one
\* each of a pool of two), a further db_conn call on a registered request
\* obtains nothing: it waits in poll.get(); a call leaves the wait with no
\* connection idle only by the panic of unwrap() on the timeout error, never
\* with a value; and no call waits forever.
C3_ThirdCallBlocksThenPanics ==
    /\ [][\A r \in Requests :
            \A c \in Obtained(r) :
                /\ c[2] \in pools[c[1]].idle
                /\ c \notin UNION {held[q] : q \in Requests}]_vars
    /\ [][\A r \in Requests, T \in ConnTypes :
            (DbConn(r, T) /\ Registered(r, T) /\ ext[r][T] # NoValue
                          /\ Exhausted(ext[r][T]))
            => /\ pc'[r] = "blocked"
               /\ waitOn'[r] = ext[r][T]
               /\ held' = held
               /\ pools' = pools]_vars
    /\ [][\A r \in Requests :
            (pc[r] = "blocked" /\ pc'[r] # "blocked")
            => IF Exhausted(waitOn[r])
               THEN pc'[r] = "panicked" /\ panic'[r] = "unwrap_err"
                    /\ Obtained(r) = {}
               ELSE pc'[r] = "handler" /\ panic'[r] = "none"
                    /\ Cardinality(Obtained(r)) = 1]_vars
    /\ \A r \in Requests : (pc[r] = "blocked") ~> (pc[r] # "blocked")

C3_Witness ==
    \E p \in PoolIds, r1, r2, r3 \in Requests :
        /\ r1 # r2 /\ r1 # r3 /\ r2 # r3
        /\ pools[p].size = 2
        /\ Cardinality(HeldOf(r1, p)) = 1
        /\ Cardinality(HeldOf(r2, p)) = 1
        /\ pc[r3] = "blocked" /\ waitOn[r3] = p
        /\ ENABLED PoolTimeout(r3)
        /\ ~ENABLED PoolGet(r3)

\* C4: no connection is held by two requests at a time, and a db_conn call
\* on a registered request whose pool has at least two connections, at most
\* one of them checked out, returns at once with a connection that no other
\* request holds: of two concurrent callers neither waits for the other.
C4_TwoConcurrentCallsBothObtain ==
    /\ [](\A r1, r2 \in Requests : r1 # r2 => held[r1] \cap held[r2] = {})
    /\ [][\A r \in Requests, T \in ConnTypes :
            (/\ DbConn(r, T) /\ Registered(r, T) /\ ext[r][T] # NoValue
             /\ pools[ext[r][T]].size >= 2
             /\ Cardinality(CheckedOut(ext[r][T])) <= 1)
            => /\ pc'[r] = "handler"
               /\ Cardinality(Obtained(r)) = 1
               /\ \A c \in Obtained(r) :
                    /\ c[1] = ext[r][T]
                    /\ \A q \in Requests \ {r} : c \notin held'[q]]_vars

C4_Witness ==
    \E p \in PoolIds, r1, r2 \in Requests :
        /\ r1 # r2
        /\ pools[p].size >= 2
        /\ Cardinality(HeldOf(r1, p)) = 1
        /\ Cardinality(HeldOf(r2, p)) = 1
        /\ HeldOf(r1, p) # HeldOf(r2, p)
        /\ pc[r1] = "handler" /\ pc[r2] = "handler"

\* C5: a dropped connection is idle in its pool again, so a call that waits
\* on a pool that had none idle can take it; and a pool's connections, idle
\* and checked out together, are exactly the pool_size it was built with.
C5_ReleaseMakesAvailable ==
    /\ [](\A p \in PoolIds :
            /\ pools[p].idle \cup {c[2] : c \in CheckedOut(p)} = 1..pools[p].size
            /\ pools[p].idle \cap {c[2] : c \in CheckedOut(p)} = {}
            /\ pools[p].size <= MaxPoolSize)
    /\ [][\A r \in Requests :
            \A c \in held[r] \ held'[r] : c[2] \in pools'[c[1]].idle]_vars
    /\ [](\A r \in Requests :
            (pc[r] = "blocked" /\ ~Exhausted(waitOn[r]))
            => ENABLED PoolGet(r) /\ ~ENABLED PoolTimeout(r))

\* A call found the pool full and waits; a connection has been dropped since.
C5_Witness ==
    \E r \in Requests :
        /\ pc[r] = "blocked"
        /\ pools[waitOn[r]].size = 1
        /\ pools[waitOn[r]].idle = {1}
        /\ ENABLED PoolGet(r)

\* C6: every request on which the before hook of one instance (and of no
\* other) has run carries a handle to the pool that instance's constructor
\* built, the same for all of them, and what one of them checks out is
\* missing from the idle connections all of them see.
C6_OneSharedPool ==
    \A m \in Middlewares, r1, r2 \in Requests :
        (ran[r1] = {m} /\ ran[r2] = {m})
        => /\ mw[m].res = "Ok"
           /\ ext[r1][mw[m].T] = mw[m].pool
           /\ ext[r2][mw[m].T] = ext[r1][mw[m].T]
           /\ pools[ext[r2][mw[m].T]].idle
                = (1..pools[mw[m].pool].size) \ {c[2] : c \in CheckedOut(mw[m].pool)}
           /\ {c[2] : c \in HeldOf(r1, mw[m].pool)} \cap pools[ext[r2][mw[m].T]].idle = {}

C6_Witness ==
    \E m \in Middlewares, r1, r2 \in Requests :
        /\ r1 # r2
        /\ ran[r1] = {m} /\ ran[r2] = {m}
        /\ HeldOf(r1, mw[m].pool) # {}
        /\ pc[r2] = "handler"
        /\ Cardinality(pools[ext[r2][mw[m].T]].idle) < pools[mw[m].pool].size

\* C7: a constructor call ends with Ok(middleware) or with Err, never with
\* both and never with a panic; when the pool cannot be built the result is
\* Err and no handle and no pool exist; when the result is Ok the handle
\* names a pool of pool_size connections that db_conn can check out.
C7_InitializerOkOrErr ==
    \A m \in Middlewares :
        /\ mw[m].res \in {"none", "Ok", "Err"}
        /\ mw[m].input = "bad" => mw[m].res = "Err"
        /\ mw[m].res = "Err"
            => /\ mw[m].pool = NoPool
               /\ pools[m] = EmptyPool
               /\ \A r \in Requests, T \in ConnTypes : ext[r][T] # m
        /\ mw[m].res = "Ok"
            => /\ mw[m].input = "good"
               /\ mw[m].pool = m
               /\ mw[m].T \in ConnTypes
               /\ pools[m].size \in 1..MaxPoolSize
               /\ Cardinality(pools[m].idle) + Cardinality(CheckedOut(m)) = pools[m].size

C7_Witness ==
    \E m1, m2 \in Middlewares :
        /\ mw[m1].res = "Err" /\ mw[m1].input = "bad"
        /\ mw[m2].res = "Ok"
        /\ CheckedOut(m2) # {}

\* C8: the before hook can run on every request the chain is working on,
\* whatever the request carries and whatever the pool has left; it returns
\* Ok, checks out nothing, and changes nothing but the entry of the request's
\* extension map under the key of its own type.
C8_BeforeAlwaysOkAndFramed ==
    /\ [](\A m \in Middlewares, r \in Requests :
            (mw[m].res = "Ok" /\ pc[r] = "before") => ENABLED Before(m, r))
    /\ [][\A m \in Middlewares, r \in Requests :
            Before(m, r)
            => /\ hookResult'[r] = "Ok"
               /\ pools' = pools /\ held' = held /\ mw' = mw
               /\ pc' = pc /\ panic' = panic
               /\ \A q \in Requests \ {r} : ext'[q] = ext[q]
               /\ \A T \in ConnTypes \ {mw[m].T} : ext'[r][T] = ext[r][T]
               /\ ext'[r][mw[m].T] # NoValue]_vars

C8_Witness ==
    \E m \in Middlewares, r \in Requests :
        /\ pc[r] = "before"
        /\ lastHook[r] = m
        /\ hookResult[r] = "Ok"
        /\ Cardinality(ran[r]) = 2
        /\ \E T \in ConnTypes \ {mw[m].T} : ext[r][T] # NoValue
        /\ Exhausted(mw[m].pool)

\* C9 as stated: after the before hooks of two instances with different
\* pools have run on a request, each instance's pool is the one stored under
\* that instance's key.
C9_Original ==
    \A r \in Requests, m1, m2 \in Middlewares :
        (m1 # m2 /\ {m1, m2} \subseteq ran[r] /\ mw[m1].pool # mw[m2].pool)
        => /\ ext[r][mw[m1].T] = mw[m1].pool
           /\ ext[r][mw[m2].T] = mw[m2].pool

\* C9, amended: the key is the connection type. Two instances of different
\* connection types do not collide, in either order, and db_conn::<T> draws
\* from the pool stored under T; of two instances of one connection type the
\* one whose hook ran last replaces the other's handle.
C9_DistinctTypesDoNotCollide ==
    /\ [](\A r \in Requests, m1, m2 \in Middlewares :
            (m1 # m2 /\ {m1, m2} \subseteq ran[r] /\ mw[m1].T # mw[m2].T)
            => /\ ext[r][mw[m1].T] = mw[m1].pool
               /\ ext[r][mw[m2].T] = mw[m2].pool)
    /\ [](\A r \in Requests :
            lastHook[r] \in Middlewares
            => ext[r][mw[lastHook[r]].T] = mw[lastHook[r]].pool)
    /\ [][\A r \in Requests, T \in ConnTypes :
            (DbConn(r, T) /\ Registered(r, T))
            => /\ \A c \in Obtained(r) : c[1] = ext[r][T]
               /\ pc'[r] = "blocked" => waitOn'[r] = ext[r][T]]_vars
    /\ [][\A r \in Requests :
            PoolGet(r) => \A c \in Obtained(r) : c[1] = waitOn[r]]_vars

C9_Witness ==
    \E r \in Requests, m1, m2 \in Middlewares :
        /\ m1 # m2 /\ ran[r] = {m1, m2}
        /\ mw[m1].T # mw[m2].T
        /\ pc[r] = "handler"
        /\ HeldOf(r, mw[m1].pool) # {}
        /\ HeldOf(r, mw[m2].pool) # {}

\* C10: every db_conn call that returns has checked out one more connection,
\* one the request did not hold; a request that holds the only connection of
\* a pool and calls again waits, and leaves the wait by the timeout panic.
C10_NoPerRequestCache ==
    /\ [](\A r \in Requests : owned[r] = Cardinality(held[r]))
    /\ [][\A r \in Requests, T \in ConnTypes :
            (DbConn(r, T) /\ Registered(r, T) /\ pc'[r] = "handler")
            => /\ Cardinality(held'[r]) = Cardinality(held[r]) + 1
               /\ Cardinality(pools'[ext[r][T]].idle)
                    = Cardinality(pools[ext[r][T]].idle) - 1]_vars
    /\ [][\A r \in Requests :
            PoolGet(r)
            => /\ Cardinality(held'[r]) = Cardinality(held[r]) + 1
               /\ Cardinality(pools'[waitOn[r]].idle)
                    = Cardinality(pools[waitOn[r]].idle) - 1]_vars
    /\ [][\A r \in Requests, T \in ConnTypes :
            (/\ DbConn(r, T) /\ Registered(r, T) /\ ext[r][T] # NoValue
             /\ pools[ext[r][T]].size = 1 /\ HeldOf(r, ext[r][T]) # {})
            => pc'[r] = "blocked" /\ held' = held /\ owned' = owned]_vars
    /\ [][\A r \in Requests :
            (/\ pc[r] = "blocked" /\ pools[waitOn[r]].size = 1
             /\ HeldOf(r, waitOn[r]) # {} /\ pc'[r] # "blocked")
            => pc'[r] = "panicked" /\ panic'[r] = "unwrap_err"]_vars
    /\ \A r \in Requests :
            (pc[r] = "blocked" /\ pools[waitOn[r]].size = 1 /\ HeldOf(r, waitOn[r]) # {})
                ~> (pc[r] = "panicked" /\ panic[r] = "unwrap_err")

\* A request holds the only connection of its pool and waits in a second call.
C10_Witness ==
    \E r \in Requests :
        /\ pc[r] = "blocked"
        /\ pools[waitOn[r]].size = 1
        /\ Cardinality(HeldOf(r, waitOn[r])) = 1
        /\ ENABLED PoolTimeout(r)
        /\ ~ENABLED PoolGet(r)

\* A request holds two connections of one pool, from two calls.
C10_TwoSlots ==
    \E r \in Requests, p \in PoolIds :
        /\ pools[p].size = 2
        /\ Cardinality(HeldOf(r, p)) = 2
        /\ owned[r] = 2
        /\ pools[p].idle = {}

====
